---- MODULE Spec2Model ----
(***************************************************************************)
(* Model of extensions/emmet/src/util.ts: the node locator (getNode), the  *)
(* template-aware resolutions (getHtmlNode, getHtmlNodeLS), the partial    *)
(* stylesheet extractor (parsePartialStylesheet), the sibling-range        *)
(* collector (getNodesInBetween) and the word finders (findNextWord,       *)
(* findPrevWord).                                                          *)
(*                                                                         *)
(* Each group of operations has its own specification over its own         *)
(* variables; the variables of the other groups stay at their idle value.  *)
(***************************************************************************)
EXTENDS Integers, Sequences, FiniteSets, TLC

VARIABLES
    \* ---- node locator (getNode) ----
    root,                 \* the tree handed to getNode
    position,             \* the position looked up
    includeNodeBoundary,  \* getNode's flag
    foundNode,            \* getNode's return value
    locPc,                \* "idle" | "ready" | "done"
    \* ---- sibling-range collector (getNodesInBetween) ----
    sibTree,              \* the tree both nodes belong to
    node1,                \* first argument
    node2,                \* second argument
    siblings,             \* the returned array
    sibPc,                \* "idle" | "ready" | "done" | "raised" (a TypeError)
    \* ---- partial stylesheet extractor (parsePartialStylesheet) ----
    cssDocument,          \* the document: languageId and text
    cssPosition,          \* the cursor position (an offset)
    streamPos,            \* stream.pos
    startPosition,        \* start boundary of the window to parse
    endPosition,          \* end boundary of the window to parse
    openBracesToFind,     \* counter of both backward loops
    currentLine,          \* line last examined for a line comment
    exit,                 \* the abort flag
    foundSelector,        \* flag of the selector loop
    cssPc,                \* "idle" | "forward" | "back1" | "back2" | "done"
    iterations,           \* parity of the loop iterations run so far
    cssResult,            \* "none" | "stylesheet" | "undefined"
    \* ---- operations on a parsed document (getHtmlNode, parseDocument, ...);
    \*      they share root, position and includeNodeBoundary with getNode ----
    languageId,           \* document.languageId
    htmlOp,               \* the operation that ran
    htmlNode,             \* the node located in, or handed with, root
    nodeKind,             \* name, type and attributes of htmlNode
    nodeParts,            \* open and close parts of htmlNode
    innerParse,           \* the parse of the embedded range: invoked, throws, tree
    htmlResult,           \* what the operation returned, or "exception"
    htmlPc,               \* "idle" | "ready" | "done"
    \* ---- language-service lookup (getHtmlNodeLS) and the cached parser ----
    documents,            \* uri -> text and version of the open document
    heap,                 \* every tree parsed so far; a node is <<tree, index>>
    parseCache,           \* the single entry of the cached markup parser
    parseCalls,           \* the calls of parseMarkupDocument so far
    scriptBodyDocuments,  \* the synthetic documents built by the last query
    lsNode,               \* what the last query returned
    lsPc,                 \* "idle" | "ready" | "repeat" (lookups on one document,
                          \*  parseCalls holds the calls of the last lookup only)
    \* ---- word finders (findNextWord, findPrevWord) ----
    wordOp,               \* "findNextWord" | "findPrevWord"
    propertyValue,        \* the string searched
    wordArg,              \* the argument pos, as it was passed
    wordPos,              \* the local pos, which the loop moves
    foundSpace,           \* flags of the loop
    foundStart,
    foundEnd,
    newSelectionStart,    \* first component of the result
    newSelectionEnd,      \* second component of the result
    wordPc                \* "idle" | "loop" | "after" | "done"

locVars == <<root, position, includeNodeBoundary, foundNode, locPc>>
sibVars == <<sibTree, node1, node2, siblings, sibPc>>

cssVars == <<cssDocument, cssPosition, streamPos, startPosition, endPosition,
             openBracesToFind, currentLine, exit, foundSelector, cssPc, iterations,
             cssResult>>

htmlVars == <<languageId, htmlOp, htmlNode, nodeKind, nodeParts, innerParse,
              htmlResult, htmlPc>>

lsVars == <<documents, heap, parseCache, parseCalls, scriptBodyDocuments, lsNode, lsPc>>

wordVars == <<wordOp, propertyValue, wordArg, wordPos, foundSpace, foundStart, foundEnd,
              newSelectionStart, newSelectionEnd, wordPc>>

vars == <<locVars, sibVars, cssVars, htmlVars, lsVars, wordVars>>

\* what each specification leaves alone
notLoc == <<sibVars, cssVars, htmlVars, lsVars, wordVars>>
notSib == <<locVars, cssVars, htmlVars, lsVars, wordVars>>
notCss == <<locVars, sibVars, htmlVars, lsVars, wordVars>>
notHtml == <<foundNode, locPc, sibVars, cssVars, lsVars, wordVars>>
notLs == <<locVars, sibVars, cssVars, htmlVars, wordVars>>
notWord == <<locVars, sibVars, cssVars, htmlVars, lsVars>>

(***************************************************************************)
(* Bounds.                                                                 *)
(***************************************************************************)
MaxNodes == 3
MaxCoord == 4
MaxLen == 4
MaxValueLen == 4

(***************************************************************************)
(* Positions.  vscode.Position is totally ordered (line, then character);  *)
(* isBefore / isAfter / isBeforeOrEqual / isAfterOrEqual / isEqual are     *)
(* < > <= >= = of that order, so a position is modelled by an integer.     *)
(***************************************************************************)
Positions == {10 * k : k \in 0..MaxCoord}

(***************************************************************************)
(* Trees (EmmetNode.Node).  Node 0 is the root container; nodes 1..n carry  *)
(* start, end and parent.  Siblings are kept in document order, so          *)
(* firstChild is the child with the least index and nextSibling the next    *)
(* child of the same parent.                                                *)
(***************************************************************************)
NoNode == -1
RootNode == 0
NoPos == -1
EmptyTree == [start |-> <<>>, end |-> <<>>, parent |-> <<>>]

NodesOf(t) == 1..Len(t.start)

Children(t, p) == {c \in NodesOf(t) : t.parent[c] = p}

FirstChild(t, n) ==
    IF Children(t, n) = {} THEN NoNode
    ELSE CHOOSE c \in Children(t, n) : \A d \in Children(t, n) : c <= d

NextSibling(t, n) ==
    LET later == {c \in Children(t, t.parent[n]) : c > n}
    IN  IF later = {} THEN NoNode
        ELSE CHOOSE c \in later : \A d \in later : c <= d

\* Markup/stylesheet tree invariant of the parsers: a child lies inside its
\* parent, and siblings follow each other in document order without overlap.
WellFormedTree(t) ==
    /\ \A c \in NodesOf(t) :
          /\ t.start[c] < t.end[c]
          /\ t.parent[c] \in 0..(c - 1)
          /\ t.parent[c] # RootNode =>
                /\ t.start[t.parent[c]] <= t.start[c]
                /\ t.end[c] <= t.end[t.parent[c]]
    /\ \A c, d \in NodesOf(t) :
          (c < d /\ t.parent[c] = t.parent[d]) => t.end[c] <= t.start[d]

Spans == {sp \in Positions \X Positions : sp[1] < sp[2]}

MkTree(n, f) ==
    [start  |-> [c \in 1..n |-> f[c][1][1]],
     end    |-> [c \in 1..n |-> f[c][1][2]],
     parent |-> [c \in 1..n |-> f[c][2]]]

TreesOfSize(n) ==
    {t \in {MkTree(n, f) : f \in [1..n -> Spans \X (0..(n - 1))]} : WellFormedTree(t)}

Trees == UNION {TreesOfSize(n) : n \in 0..MaxNodes}

(***************************************************************************)
(* The idle value of each group of variables.                              *)
(***************************************************************************)
LocIdle ==
    /\ root = EmptyTree
    /\ position = 0
    /\ includeNodeBoundary = FALSE
    /\ foundNode = NoNode
    /\ locPc = "idle"

SibIdle ==
    /\ sibTree = EmptyTree
    /\ node1 = NoNode
    /\ node2 = NoNode
    /\ siblings = <<>>
    /\ sibPc = "idle"

CssIdle ==
    /\ cssDocument = [languageId |-> "css", pre |-> <<>>, fill |-> "a", fillLen |-> 0,
                      post |-> <<>>]
    /\ cssPosition = 0
    /\ streamPos = 0
    /\ startPosition = 0
    /\ endPosition = 0
    /\ openBracesToFind = 0
    /\ currentLine = 0
    /\ exit = FALSE
    /\ foundSelector = FALSE
    /\ cssPc = "idle"
    /\ iterations = 0
    /\ cssResult = "none"

NoKind == [name |-> "", type |-> "", attributes |-> {}]
NoParts == [openEnd |-> NoPos, hasClose |-> FALSE, closeStart |-> NoPos]
NoParse == [invoked |-> FALSE, throws |-> FALSE, tree |-> EmptyTree]
NoResult == [kind |-> "none", node |-> NoNode]

HtmlIdle ==
    /\ languageId = "html"
    /\ htmlOp = "none"
    /\ htmlNode = NoNode
    /\ nodeKind = NoKind
    /\ nodeParts = NoParts
    /\ innerParse = NoParse
    /\ htmlResult = NoResult
    /\ htmlPc = "idle"

NoRef == <<0, 0>>
NoCache == [key |-> "", version |-> 0, tree |-> 0]

LsIdle ==
    /\ documents = <<>>
    /\ heap = <<>>
    /\ parseCache = NoCache
    /\ parseCalls = <<>>
    /\ scriptBodyDocuments = <<>>
    /\ lsNode = NoRef
    /\ lsPc = "idle"

\* a variable declared and not yet assigned (lines 482-483, 520-521)
Undefined == -1

WordIdle ==
    /\ wordOp = "none"
    /\ propertyValue = <<>>
    /\ wordArg = 0
    /\ wordPos = 0
    /\ foundSpace = FALSE
    /\ foundStart = FALSE
    /\ foundEnd = FALSE
    /\ newSelectionStart = Undefined
    /\ newSelectionEnd = Undefined
    /\ wordPc = "idle"

(***************************************************************************)
(* getNode (util.ts 326-349).                                              *)
(***************************************************************************)
\* a faulty variant, for comparison: the boundary-inclusive test whatever the flag
NodeContainsAlwaysInclusive(t, n, pos, incl) ==
    t.start[n] <= pos /\ t.end[n] >= pos

\* the containment test of lines 337-338
NodeContains(t, n, pos, incl) ==
    \/ (t.start[n] < pos /\ t.end[n] > pos)
    \/ (incl /\ t.start[n] <= pos /\ t.end[n] >= pos)

RECURSIVE GetNodeLoop(_, _, _, _, _)
\* the while loop of lines 334-346, from (currentNode, foundNode)
GetNodeLoop(t, currentNode, found, pos, incl) ==
    IF currentNode = NoNode THEN found
    ELSE IF NodeContains(t, currentNode, pos, incl)
         THEN GetNodeLoop(t, FirstChild(t, currentNode), currentNode, pos, incl)
         ELSE GetNodeLoop(t, NextSibling(t, currentNode), found, pos, incl)

\* getNode(root, position, includeNodeBoundary); an absent root is NoNode
getNode(t, pos, incl) ==
    GetNodeLoop(t, FirstChild(t, RootNode), NoNode, pos, incl)

(***************************************************************************)
(* Specification of the locator: a tree, a position and a flag are drawn,  *)
(* then getNode is applied.                                                *)
(***************************************************************************)
LocInit ==
    /\ root \in Trees
    /\ position \in Positions
    /\ includeNodeBoundary \in BOOLEAN
    /\ foundNode = NoNode
    /\ locPc = "ready"
    /\ SibIdle /\ CssIdle /\ HtmlIdle /\ LsIdle /\ WordIdle

GetNode ==
    /\ locPc = "ready"
    /\ foundNode' = getNode(root, position, includeNodeBoundary)
    /\ locPc' = "done"
    /\ UNCHANGED <<root, position, includeNodeBoundary>>
    /\ UNCHANGED notLoc

LocNext == GetNode

SpecLocate == LocInit /\ [][LocNext]_vars

(***************************************************************************)
(* Claims about the locator.                                               *)
(***************************************************************************)
\* the span of node n contains pos: strictly, or with equality allowed
SpanContains(t, n, pos, incl) ==
    IF incl THEN t.start[n] <= pos /\ pos <= t.end[n]
            ELSE t.start[n] < pos /\ pos < t.end[n]

SpanSize(t, n) == t.end[n] - t.start[n]

ContainingNodes(t, pos, incl) == {n \in NodesOf(t) : SpanContains(t, n, pos, incl)}

\* C1 as stated: getNode returns a node of smallest span among all the nodes
\* whose span contains P, and nothing when no node contains P.
C1_SmallestSpanAlways ==
    locPc = "done" =>
        LET cs == ContainingNodes(root, position, includeNodeBoundary)
        IN  IF cs = {} THEN foundNode = NoNode
            ELSE /\ foundNode \in cs
                 /\ \A m \in cs : SpanSize(root, foundNode) <= SpanSize(root, m)

\* C1 amended: getNode returns nothing exactly when no node contains P;
\* otherwise it returns a node that contains P and none of whose children
\* contains P.  That node has the smallest span among the containing nodes
\* when includeNodeBoundary is false; when it is true, the only containing
\* nodes with a smaller span start exactly at P, where the returned node ends
\* (they lie under a later sibling that touches the returned branch at P).
C1_DeepestOnFirstBranch ==
    locPc = "done" =>
        LET cs == ContainingNodes(root, position, includeNodeBoundary)
        IN  IF cs = {} THEN foundNode = NoNode
            ELSE /\ foundNode \in cs
                 /\ \A c \in Children(root, foundNode) : c \notin cs
                 /\ \A m \in cs :
                       SpanSize(root, m) < SpanSize(root, foundNode) =>
                           /\ includeNodeBoundary
                           /\ root.start[m] = position
                           /\ root.end[foundNode] = position

\* C1 witness: getNode has descended below the top level and returned a node
\* while at least two nodes contain P.
C1_Witness ==
    /\ locPc = "done"
    /\ foundNode # NoNode
    /\ root.parent[foundNode] # RootNode
    /\ Cardinality(ContainingNodes(root, position, includeNodeBoundary)) >= 2

(***************************************************************************)
(* getNodesInBetween and sameNodes (util.ts 553-597).                      *)
(*                                                                         *)
(* The collector reads node.parent, and compares parents by position, so   *)
(* here the root carries a span of its own (rootStart, rootEnd) that       *)
(* encloses its children; the parent of the root is undefined (NoNode).    *)
(***************************************************************************)
StartOf(t, n) == IF n = RootNode THEN t.rootStart ELSE t.start[n]
EndOf(t, n) == IF n = RootNode THEN t.rootEnd ELSE t.end[n]
ParentOf(t, n) == IF n = RootNode THEN NoNode ELSE t.parent[n]
SiblingAfter(t, n) == IF n = RootNode THEN NoNode ELSE NextSibling(t, n)

WithRoot(t, sp) ==
    [start |-> t.start, end |-> t.end, parent |-> t.parent,
     rootStart |-> sp[1], rootEnd |-> sp[2]]

RootedTrees ==
    {rt \in {WithRoot(t, sp) : t \in Trees, sp \in Spans} :
        \A c \in Children(rt, RootNode) :
            rt.rootStart <= rt.start[c] /\ rt.end[c] <= rt.rootEnd}

\* a faulty variant, for comparison: only the starts are compared
sameNodesByStart(t, a, b) ==
    IF a = NoNode \/ b = NoNode THEN FALSE
    ELSE StartOf(t, a) = StartOf(t, b)

\* sameNodes, lines 592-597
sameNodes(t, a, b) ==
    IF a = NoNode \/ b = NoNode THEN FALSE
    ELSE StartOf(t, a) = StartOf(t, b) /\ EndOf(t, a) = EndOf(t, b)

RECURSIVE WidenNode1(_, _, _)
\* lines 572-574: the highest ancestor of node1 that ends before node2 starts
WidenNode1(t, a, b) ==
    IF ParentOf(t, a) # NoNode /\ EndOf(t, ParentOf(t, a)) < StartOf(t, b)
    THEN WidenNode1(t, ParentOf(t, a), b)
    ELSE a

RECURSIVE WidenNode2(_, _, _)
\* lines 577-579: the highest ancestor of node2 that starts after node1 starts
WidenNode2(t, a, b) ==
    IF ParentOf(t, b) # NoNode /\ StartOf(t, ParentOf(t, b)) > StartOf(t, a)
    THEN WidenNode2(t, a, ParentOf(t, b))
    ELSE b

\* a faulty variant, for comparison: the collection is limited by the start of node2
CollectLimitAtStart(t, b) == StartOf(t, b)

\* line 584: const position = node2.end
CollectLimit(t, b) == EndOf(t, b)

RECURSIVE CollectSiblings(_, _, _, _)
\* lines 582-588: currentNode and every nextSibling that starts before pos
CollectSiblings(t, currentNode, pos, acc) ==
    IF currentNode # NoNode /\ pos > StartOf(t, currentNode)
    THEN CollectSiblings(t, SiblingAfter(t, currentNode), pos, Append(acc, currentNode))
    ELSE acc

\* line 560 reads node1.parent and node2.parent: a TypeError when the node is
\* absent (two absent nodes are not the same node, so line 555 does not return)
ReadsParentOfAbsent(t, a, b) == ~sameNodes(t, a, b) /\ (a = NoNode \/ b = NoNode)

\* getNodesInBetween, lines 553-590
getNodesInBetween(t, a, b) ==
    IF sameNodes(t, a, b) THEN <<a>>
    ELSE IF ~sameNodes(t, ParentOf(t, a), ParentOf(t, b))
    THEN IF StartOf(t, b) < StartOf(t, a) THEN <<b>>
         ELSE IF StartOf(t, b) < EndOf(t, a) THEN <<a>>
         ELSE LET w1 == WidenNode1(t, a, b)
                  w2 == WidenNode2(t, w1, b)
              IN  CollectSiblings(t, w1, CollectLimit(t, w2), <<>>)
    ELSE CollectSiblings(t, a, CollectLimit(t, b), <<>>)

(***************************************************************************)
(* Specification of the collector: a tree and two of its nodes are drawn,  *)
(* then getNodesInBetween is applied.                                      *)
(***************************************************************************)
SibInit ==
    /\ sibTree \in RootedTrees
    /\ node1 \in NodesOf(sibTree) \cup {RootNode, NoNode}
    /\ node2 \in NodesOf(sibTree) \cup {RootNode, NoNode}
    /\ siblings = <<>>
    /\ sibPc = "ready"
    /\ LocIdle /\ CssIdle /\ HtmlIdle /\ LsIdle /\ WordIdle

GetNodesInBetween ==
    /\ sibPc = "ready"
    /\ IF ReadsParentOfAbsent(sibTree, node1, node2)
       THEN siblings' = <<>> /\ sibPc' = "raised"
       ELSE siblings' = getNodesInBetween(sibTree, node1, node2) /\ sibPc' = "done"
    /\ UNCHANGED <<sibTree, node1, node2>>
    /\ UNCHANGED notSib

SibNext == GetNodesInBetween

SpecSiblings == SibInit /\ [][SibNext]_vars

(***************************************************************************)
(* Claims about the collector.                                             *)
(***************************************************************************)
\* A=[10,20], C=[20,30], B=[30,40] are consecutive siblings under one parent,
\* and getNodesInBetween(A, B) has returned
ScenarioABC(a, c, b) ==
    /\ sibPc = "done"
    /\ node1 = a /\ node2 = b
    /\ sibTree.start[a] = 10 /\ sibTree.end[a] = 20
    /\ sibTree.start[c] = 20 /\ sibTree.end[c] = 30
    /\ sibTree.start[b] = 30 /\ sibTree.end[b] = 40
    /\ sibTree.parent[a] = sibTree.parent[c]
    /\ sibTree.parent[c] = sibTree.parent[b]
    /\ NextSibling(sibTree, a) = c
    /\ NextSibling(sibTree, c) = b

\* C7 as stated: in the scenario getNodesInBetween(A, B) returns exactly [A, C].
C7_ReturnsAC ==
    \A a, c, b \in NodesOf(sibTree) :
        ScenarioABC(a, c, b) => siblings = <<a, c>>

\* C7 amended: in the scenario getNodesInBetween(A, B) returns exactly
\* [A, C, B]: B starts before its own end, so the collection includes it.
C7_ReturnsACB ==
    \A a, c, b \in NodesOf(sibTree) :
        ScenarioABC(a, c, b) => siblings = <<a, c, b>>

\* C7 witness: the scenario has been run.
C7_Witness ==
    \E a, c, b \in NodesOf(sibTree) : ScenarioABC(a, c, b)

(***************************************************************************)
(* Documents of the stylesheet extractor.  A text is pre \o fill^fillLen   *)
(* \o post: short texts have no fill; long texts carry a run of one        *)
(* character long enough to reach the cutoffs of lines 181 and 276.        *)
(* Lines end with "\n" (EndOfLine.LF), so an offset and a (line,           *)
(* character) position name each other and positions are kept as offsets.  *)
(***************************************************************************)
closeBrace == "}"
openBrace == "{"
slash == "/"
star == "*"
NaN == "NaN"

LimitChars == 5000
LimitLines == 100

DocLen(d) == Len(d.pre) + d.fillLen + Len(d.post)

CharAt(d, i) ==
    IF i < Len(d.pre) THEN d.pre[i + 1]
    ELSE IF i < Len(d.pre) + d.fillLen THEN d.fill
    ELSE d.post[i - Len(d.pre) - d.fillLen + 1]

Clamp(x, lo, hi) == IF x < lo THEN lo ELSE IF x > hi THEN hi ELSE x

MinOf(S) == CHOOSE x \in S : \A y \in S : x <= y
MaxOf(S) == CHOOSE x \in S : \A y \in S : x >= y

\* document.positionAt(off).line: the number of line breaks before off
LineOf(d, off) ==
    Cardinality({k \in 1..Clamp(off, 0, Len(d.pre)) : d.pre[k] = "\n"})
    + (IF d.fill = "\n" THEN Clamp(off - Len(d.pre), 0, d.fillLen) ELSE 0)
    + Cardinality({k \in 1..Clamp(off - Len(d.pre) - d.fillLen, 0, Len(d.post)) :
                      d.post[k] = "\n"})

\* offset of the first character of the line that holds off
LineStart(d, off) ==
    LET brk == {j \in 0..(off - 1) : CharAt(d, j) = "\n"}
    IN  IF brk = {} THEN 0 ELSE MaxOf(brk) + 1

\* offset of the line break that ends the line that holds off (or the end)
LineEnd(d, off) ==
    LET brk == {j \in off..(DocLen(d) - 1) : CharAt(d, j) = "\n"}
    IN  IF brk = {} THEN DocLen(d) ELSE MinOf(brk)

\* text.indexOf(c1 c2) within [from, to), as an offset; NoPos when absent
IndexOfPair(d, c1, c2, from, to) ==
    LET hits == {j \in from..(to - 2) : CharAt(d, j) = c1 /\ CharAt(d, j + 1) = c2}
    IN  IF hits = {} THEN NoPos ELSE MinOf(hits)

\* text.lastIndexOf(c1 c2) within [from, to), as an offset; NoPos when absent
LastIndexOfPair(d, c1, c2, from, to) ==
    LET hits == {j \in from..(to - 2) : CharAt(d, j) = c1 /\ CharAt(d, j + 1) = c2}
    IN  IF hits = {} THEN NoPos ELSE MaxOf(hits)

(***************************************************************************)
(* DocumentStreamReader over the whole document (bufferStream.ts).         *)
(***************************************************************************)
Sof(p) == p <= 0
Eof(d, p) == p >= DocLen(d)
Peek(d, p) == IF Eof(d, p) THEN NaN ELSE CharAt(d, p)
\* a faulty variant, for comparison: the stream advances by two characters
StreamNextSkipping(d, p) == IF Eof(d, p) THEN p ELSE IF p + 2 > DocLen(d) THEN p + 1 ELSE p + 2

StreamNext(d, p) == IF Eof(d, p) THEN p ELSE p + 1
\* a faulty variant, for comparison: the stream backs up twice as far
BackUpPosTwice(p, n) == IF p - 2 * n < 0 THEN 0 ELSE p - 2 * n

BackUpPos(p, n) == IF p - n < 0 THEN 0 ELSE p - n

IsSpace(ch) == ch \in {" ", "\n", "\t"}

(***************************************************************************)
(* parsePartialStylesheet (util.ts 177-321).                               *)
(***************************************************************************)
\* a faulty variant, for comparison: every dialect is taken for the strict one
isAnyDialect(d) == d.languageId \in {"css", "scss"}

\* line 178
isCSS(d) == d.languageId = "css"

\* lines 181-182, as an offset
LimitPosition(d, pos) == IF pos - LimitChars > 0 THEN pos - LimitChars ELSE 0

\* lines 185-192
findOpeningCommentBeforePosition(d, pos) == LastIndexOfPair(d, slash, star, 0, pos)

\* lines 194-202
findClosingCommentAfterPosition(d, pos) ==
    LET off == IndexOfPair(d, star, slash, pos, DocLen(d))
    IN  IF off = NoPos THEN NoPos ELSE off + 2

\* lines 204-212: the stream position after consumeLineCommentBackwards
LineCommentBackPos(d, cl, p) ==
    IF ~isCSS(d) /\ cl # LineOf(d, p)
    THEN LET startLineComment == IndexOfPair(d, slash, slash, LineStart(d, p), LineEnd(d, p))
         IN  IF startLineComment # NoPos THEN startLineComment ELSE p
    ELSE p

\* lines 204-212: currentLine after consumeLineCommentBackwards
LineCommentBackLine(d, cl, p) ==
    IF ~isCSS(d) /\ cl # LineOf(d, p) THEN LineOf(d, p) ELSE cl

\* lines 214-222: the stream position after consumeBlockCommentBackwards
consumeBlockCommentBackwards(d, p, startPos) ==
    IF Peek(d, p) = slash
    THEN LET q == BackUpPos(p, 1)
         IN  IF Peek(d, q) = star
             THEN LET open == findOpeningCommentBeforePosition(d, q)
                  IN  IF open # NoPos THEN open ELSE startPos
             ELSE StreamNext(d, q)
    ELSE p

\* Position(line + 1, 0) of line 227: the start of the next line, which lies
\* at or after the end of the stream when there is no next line
NextLineStart(d, p) ==
    IF LineEnd(d, p) >= DocLen(d) THEN DocLen(d) ELSE LineEnd(d, p) + 1

\* after stream.eat(star) succeeded at p (lines 228-229)
BlockCommentEnd(d, p, endPos) ==
    LET close == findClosingCommentAfterPosition(d, p)
    IN  IF close # NoPos THEN close ELSE endPos

\* lines 224-232: the stream position after consumeCommentForwards
consumeCommentForwards(d, p, endPos) ==
    IF Peek(d, p) = slash
    THEN LET p1 == StreamNext(d, p)
         IN  IF Peek(d, p1) = slash
             THEN LET p2 == StreamNext(d, p1)
                  IN  IF ~isCSS(d) THEN NextLineStart(d, p2)
                      ELSE IF Peek(d, p2) = star
                           THEN BlockCommentEnd(d, StreamNext(d, p2), endPos)
                           ELSE p2
             ELSE IF Peek(d, p1) = star
                  THEN BlockCommentEnd(d, StreamNext(d, p1), endPos)
                  ELSE p1
    ELSE p

\* the cutoff test of line 276
CutoffReached(d, pos, p) ==
    \/ LineOf(d, pos) - LineOf(d, p) > LimitLines
    \/ p <= LimitPosition(d, pos)

\* a faulty variant, for comparison: the stream stays where the forward scan
\* left it
BackwardScanStartWhereLeft(cursor, pos) == pos

\* line 247: the stream is put back on the cursor
BackwardScanStart(cursor, pos) == cursor

\* A loop iteration is a step of the call even when it leaves every variable
\* of the program as it was: iterations flips with each one.

\* lines 235-241, one iteration of the forward loop
ForwardStep ==
    /\ cssPc = "forward"
    /\ ~Eof(cssDocument, streamPos)
    /\ Peek(cssDocument, streamPos) # closeBrace
    /\ streamPos' = IF Peek(cssDocument, streamPos) = slash
                    THEN consumeCommentForwards(cssDocument, streamPos, endPosition)
                    ELSE StreamNext(cssDocument, streamPos)
    /\ iterations' = 1 - iterations
    /\ UNCHANGED <<cssDocument, cssPosition, startPosition, endPosition,
                   openBracesToFind, currentLine, exit, foundSelector, cssPc, cssResult>>
    /\ UNCHANGED notCss

\* the forward loop ends (line 235), then lines 243-250
ForwardExit ==
    /\ cssPc = "forward"
    /\ Eof(cssDocument, streamPos) \/ Peek(cssDocument, streamPos) = closeBrace
    /\ LET after == IF Eof(cssDocument, streamPos) THEN streamPos
                    ELSE StreamNext(cssDocument, streamPos)
       IN  /\ endPosition' = IF ~Eof(cssDocument, after) THEN after ELSE endPosition
           /\ streamPos' = BackwardScanStart(cssPosition, after)
    /\ openBracesToFind' = 1
    /\ currentLine' = LineOf(cssDocument, cssPosition)
    /\ exit' = FALSE
    /\ cssPc' = "back1"
    /\ UNCHANGED <<iterations, cssDocument, cssPosition, startPosition, foundSelector, cssResult>>
    /\ UNCHANGED notCss

\* lines 253-279, one iteration of the brace loop
BraceStep ==
    /\ cssPc = "back1"
    /\ ~exit /\ openBracesToFind > 0 /\ ~Sof(streamPos)
    /\ LET d == cssDocument
           p0 == LineCommentBackPos(d, currentLine, streamPos)
           p1 == BackUpPos(p0, 1)
           ch == Peek(d, p1)
           strictClose == ch = closeBrace /\ isCSS(d)
           p2 == IF strictClose THEN StreamNext(d, p1)
                 ELSE IF ch = slash THEN consumeBlockCommentBackwards(d, p1, startPosition)
                 ELSE p1
       IN  /\ currentLine' = LineCommentBackLine(d, currentLine, streamPos)
           /\ openBracesToFind' =
                 IF ch = openBrace THEN openBracesToFind - 1
                 ELSE IF ch = closeBrace /\ ~isCSS(d) THEN openBracesToFind + 1
                 ELSE openBracesToFind
           /\ startPosition' = IF strictClose THEN p2 ELSE startPosition
           /\ streamPos' = p2
           /\ exit' = (strictClose \/ CutoffReached(d, cssPosition, p2))
    /\ iterations' = 1 - iterations
    /\ UNCHANGED <<cssDocument, cssPosition, endPosition, foundSelector, cssPc, cssResult>>
    /\ UNCHANGED notCss

\* the brace loop ends (line 253), then lines 282-284
BraceExit ==
    /\ cssPc = "back1"
    /\ ~(~exit /\ openBracesToFind > 0 /\ ~Sof(streamPos))
    /\ currentLine' = LineOf(cssDocument, streamPos)
    /\ openBracesToFind' = 0
    /\ foundSelector' = FALSE
    /\ cssPc' = "back2"
    /\ UNCHANGED <<iterations, cssDocument, cssPosition, streamPos, startPosition, endPosition,
                   exit, cssResult>>
    /\ UNCHANGED notCss

\* lines 285-314, one iteration of the selector loop
SelectorStep ==
    /\ cssPc = "back2"
    /\ ~exit /\ ~Sof(streamPos) /\ ~foundSelector /\ openBracesToFind >= 0
    /\ LET d == cssDocument
           p0 == LineCommentBackPos(d, currentLine, streamPos)
           p1 == BackUpPos(p0, 1)
           ch == Peek(d, p1)
           p2 == IF ~IsSpace(ch) /\ ch = slash
                 THEN consumeBlockCommentBackwards(d, p1, startPosition)
                 ELSE p1
           found == ~IsSpace(ch) /\ ch \notin {slash, closeBrace, openBrace}
                    /\ openBracesToFind = 0
       IN  /\ currentLine' = LineCommentBackLine(d, currentLine, streamPos)
           /\ streamPos' = p2
           /\ openBracesToFind' =
                 IF ch = closeBrace THEN openBracesToFind + 1
                 ELSE IF ch = openBrace THEN openBracesToFind - 1
                 ELSE openBracesToFind
           /\ foundSelector' = found
           /\ startPosition' = IF ~IsSpace(ch) /\ ~Sof(p2) /\ found THEN p2
                               ELSE startPosition
    /\ iterations' = 1 - iterations
    /\ UNCHANGED <<cssDocument, cssPosition, endPosition, exit, cssPc, cssResult>>
    /\ UNCHANGED notCss

\* the selector loop ends (line 285), then lines 316-320: parseStylesheet is
\* handed the window [startPosition, endPosition]; it returns a tree or throws
ParseWindow ==
    /\ cssPc = "back2"
    /\ ~(~exit /\ ~Sof(streamPos) /\ ~foundSelector /\ openBracesToFind >= 0)
    /\ \E throws \in BOOLEAN :
          cssResult' = IF throws THEN "undefined" ELSE "stylesheet"
    /\ cssPc' = "done"
    /\ UNCHANGED <<iterations, cssDocument, cssPosition, streamPos, startPosition, endPosition,
                   openBracesToFind, currentLine, exit, foundSelector>>
    /\ UNCHANGED notCss

(***************************************************************************)
(* Specifications of the extractor.                                        *)
(***************************************************************************)
Alphabet == {openBrace, closeBrace, slash, star, "a", "\n"}

ShortTexts == UNION {[1..n -> Alphabet] : n \in 0..MaxLen}

LanguageIds == {"css", "scss"}

ShortDocuments ==
    {[languageId |-> l, pre |-> t, fill |-> "a", fillLen |-> 0, post |-> <<>>] :
        l \in LanguageIds, t \in ShortTexts}

\* long texts: a run that reaches, or just misses, one of the cutoffs
LongPres == {<<>>, <<"a", "{">>, <<"}", "a">>}
LongPosts == {<<>>, <<"a", "{", "a">>}
LongFills == {<<"a", LimitChars>>, <<"a", LimitChars - 2>>,
              <<"\n", LimitLines + 1>>, <<"\n", LimitLines - 1>>}

LongDocuments ==
    {[languageId |-> l, pre |-> p, fill |-> f[1], fillLen |-> f[2], post |-> q] :
        l \in LanguageIds, p \in LongPres, f \in LongFills, q \in LongPosts}

\* every offset of a short text; the offsets after the run of a long one
CursorsOf(d) ==
    IF d.fillLen = 0 THEN 0..DocLen(d)
    ELSE (DocLen(d) - Len(d.post))..DocLen(d)

CssInitWith(docs) ==
    /\ cssDocument \in docs
    /\ cssPosition \in CursorsOf(cssDocument)
    /\ streamPos = cssPosition
    /\ startPosition = 0
    /\ endPosition = DocLen(cssDocument)
    /\ openBracesToFind = 0
    /\ currentLine = 0
    /\ exit = FALSE
    /\ foundSelector = FALSE
    /\ cssPc = "forward"
    /\ iterations = 0
    /\ cssResult = "none"
    /\ LocIdle /\ SibIdle /\ HtmlIdle /\ LsIdle /\ WordIdle

CssInit == CssInitWith(ShortDocuments \cup LongDocuments)

CssNext ==
    \/ ForwardStep
    \/ ForwardExit
    \/ BraceStep
    \/ BraceExit
    \/ SelectorStep
    \/ ParseWindow

SpecCss == CssInit /\ [][CssNext]_vars

\* the same operations on the short documents, each step eventually taken:
\* the call runs on one thread and nothing else can hold it up
CssShortInit == CssInitWith(ShortDocuments)

SpecCssFair == CssShortInit /\ [][CssNext]_vars /\ WF_vars(CssNext)

(***************************************************************************)
(* Claims about the extractor.                                             *)
(***************************************************************************)
RECURSIVE UnmatchedOpenBefore(_, _, _)
\* the opening brace, left of offset i + 1, that is left unmatched by the
\* braces between it and the cursor
UnmatchedOpenBefore(d, i, depth) ==
    IF i < 0 THEN NoPos
    ELSE IF CharAt(d, i) = "{"
         THEN IF depth = 0 THEN i ELSE UnmatchedOpenBefore(d, i - 1, depth - 1)
         ELSE IF CharAt(d, i) = "}" THEN UnmatchedOpenBefore(d, i - 1, depth + 1)
         ELSE UnmatchedOpenBefore(d, i - 1, depth)

RECURSIVE UnmatchedCloseFrom(_, _, _)
\* the closing brace, at or right of offset i, left unmatched by the braces
\* between the cursor and it
UnmatchedCloseFrom(d, i, depth) ==
    IF i >= DocLen(d) THEN NoPos
    ELSE IF CharAt(d, i) = "}"
         THEN IF depth = 0 THEN i ELSE UnmatchedCloseFrom(d, i + 1, depth - 1)
         ELSE IF CharAt(d, i) = "{" THEN UnmatchedCloseFrom(d, i + 1, depth + 1)
         ELSE UnmatchedCloseFrom(d, i + 1, depth)

\* the first character of the selector of the rule opened at offset open: the
\* first non-blank character after the brace that precedes the selector
SelectorStartOf(d, open) ==
    LET braces == {j \in 0..(open - 1) : CharAt(d, j) \in {"{", "}"}}
        from == IF braces = {} THEN 0 ELSE MaxOf(braces) + 1
        text == {j \in from..(open - 1) : CharAt(d, j) \notin {" ", "\n", "\t"}}
    IN  IF text = {} THEN open ELSE MinOf(text)

\* a short text without comment characters, the cursor inside a rule block
\* that holds no nested block
InsideRuleBlock ==
    /\ cssDocument.fillLen = 0
    /\ \A j \in 0..(DocLen(cssDocument) - 1) : CharAt(cssDocument, j) # "/"
    /\ UnmatchedOpenBefore(cssDocument, cssPosition - 1, 0) # NoPos
    /\ UnmatchedCloseFrom(cssDocument, cssPosition, 0) # NoPos
    /\ \A j \in (UnmatchedOpenBefore(cssDocument, cssPosition - 1, 0) + 1)..
                 (UnmatchedCloseFrom(cssDocument, cssPosition, 0) - 1) :
          CharAt(cssDocument, j) \notin {"{", "}"}

\* C4 as stated: with the cursor inside a rule block, the window handed to
\* the stylesheet parser holds the rule's opening brace, its closing brace and
\* the whole of its selector.
C4_WindowHoldsRuleAndSelector ==
    (cssPc = "done" /\ InsideRuleBlock) =>
        LET open == UnmatchedOpenBefore(cssDocument, cssPosition - 1, 0)
            close == UnmatchedCloseFrom(cssDocument, cssPosition, 0)
        IN  /\ startPosition <= SelectorStartOf(cssDocument, open)
            /\ startPosition <= open
            /\ close + 1 <= endPosition

\* C5 as stated: when the brace scan is aborted by the cutoff (the stream is
\* more than 100 lines above P, or at or before offset(P) - 5000), the window
\* handed to the parser starts at the stream position of the abort.
C5_WindowStartsAtAbort ==
    (/\ cssPc = "done"
     /\ exit
     /\ \/ LineOf(cssDocument, cssPosition) - LineOf(cssDocument, streamPos) > 100
        \/ streamPos <= cssPosition - 5000)
    => startPosition = streamPos

\* C6 as stated: every call of parsePartialStylesheet terminates.
C6_Terminates == <>(cssPc = "done")

(***************************************************************************)
(* Operations on a parsed document: parseDocument (154-164), getHtmlNode   *)
(* (357-378), getCssPropertyFromDocument (652-672) and                     *)
(* getEmbeddedCssNodeIfAny (675-694).                                      *)
(*                                                                         *)
(* parse and parseStylesheet are the external parsers: each call either    *)
(* throws or returns a tree whose nodes lie in the range it was given.     *)
(* Of the nodes of root only the located one is read, so its name,         *)
(* attributes and open/close parts are drawn when the operation reads      *)
(* them.                                                                   *)
(***************************************************************************)
\* line 351
allowedMimeTypesInScriptTag ==
    {"text/html", "text/plain", "text/x-template", "text/template", "text/ng-template"}

\* lines 85-88
isStyleSheet(syntax) == syntax \in {"css", "scss", "sass", "less", "stylus"}

Attr(n, v) == [name |-> n, value |-> v]

NodeKinds ==
    {[name |-> "script", type |-> "tag", attributes |-> {Attr("type", m)}] :
        m \in allowedMimeTypesInScriptTag \cup {"text/javascript"}}
    \cup
    {[name |-> "script", type |-> "tag", attributes |-> {}],
     [name |-> "script", type |-> "tag", attributes |-> {Attr("src", "text/html")}],
     [name |-> "script", type |-> "tag",
      attributes |-> {Attr("id", "t"), Attr("type", "text/template")}],
     [name |-> "div", type |-> "tag", attributes |-> {Attr("type", "text/html")}],
     [name |-> "style", type |-> "tag", attributes |-> {}],
     [name |-> "color", type |-> "property", attributes |-> {}],
     [name |-> "a", type |-> "rule", attributes |-> {}]}

\* the open and close parts a node n of t can have: open = [start, openEnd],
\* close = [closeStart, end], the children in between; without a close part
\* the node ends with its open part and has no children
PartsOf(t, n) ==
    {pt \in [openEnd : Positions, hasClose : {TRUE}, closeStart : Positions] :
        /\ t.start[n] < pt.openEnd
        /\ pt.openEnd <= pt.closeStart
        /\ pt.closeStart < t.end[n]
        /\ \A c \in Children(t, n) :
              pt.openEnd <= t.start[c] /\ t.end[c] <= pt.closeStart}
    \cup
    (IF Children(t, n) = {}
     THEN {[openEnd |-> t.end[n], hasClose |-> FALSE, closeStart |-> NoPos]}
     ELSE {})

\* the trees a parse of the range [lo, hi] can return
TreesWithin(lo, hi) ==
    {t \in Trees : \A c \in NodesOf(t) : lo <= t.start[c] /\ t.end[c] <= hi}

ParseOutcomes(lo, hi) ==
    {[invoked |-> TRUE, throws |-> TRUE, tree |-> EmptyTree]}
    \cup {[invoked |-> TRUE, throws |-> FALSE, tree |-> t] : t \in TreesWithin(lo, hi)}

\* lines 361-364
isTemplateScript(kind) ==
    /\ kind.name = "script"
    /\ \E x \in kind.attributes :
          x.name = "type" /\ x.value \in allowedMimeTypesInScriptTag

\* a faulty variant, for comparison: the body test of lines 366-367 with the boundaries included
InsideBodyInclusive(parts, pos) ==
    /\ parts.hasClose
    /\ pos >= parts.openEnd /\ pos <= parts.closeStart

\* lines 366-367: currentNode.close && position.isAfter(open.end)
\*                                  && position.isBefore(close.start)
InsideBody(parts, pos) ==
    /\ parts.hasClose
    /\ pos > parts.openEnd /\ pos < parts.closeStart

\* lines 371-374: the node getHtmlNode returns once the inner range was parsed
InnerOrOuter(outer, inner, pos, incl) ==
    IF inner.throws THEN [kind |-> "outer", node |-> outer]
    ELSE LET n == getNode(inner.tree, pos, incl)
         IN  IF n # NoNode THEN [kind |-> "inner", node |-> n]
             ELSE [kind |-> "outer", node |-> outer]

\* parseDocument, lines 154-164: the parse throws or returns root
ParseDocument ==
    /\ htmlPc = "ready"
    /\ \E throws \in BOOLEAN :
          htmlResult' = IF throws THEN [kind |-> "undefined", node |-> NoNode]
                        ELSE [kind |-> "tree", node |-> RootNode]
    /\ htmlOp' = "parseDocument"
    /\ htmlPc' = "done"
    /\ UNCHANGED <<root, position, includeNodeBoundary, languageId, htmlNode, nodeKind,
                   nodeParts, innerParse>>
    /\ UNCHANGED notHtml

\* getHtmlNode, lines 357-378
GetHtmlNode ==
    /\ htmlPc = "ready"
    /\ LET cur == getNode(root, position, includeNodeBoundary)
       IN  /\ htmlNode' = cur
           /\ IF cur = NoNode
              THEN /\ htmlResult' = [kind |-> "undefined", node |-> NoNode]
                   /\ UNCHANGED <<nodeKind, nodeParts, innerParse>>
              ELSE \E kind \in NodeKinds, parts \in PartsOf(root, cur) :
                      /\ nodeKind' = kind
                      /\ nodeParts' = parts
                      /\ IF isTemplateScript(kind) /\ InsideBody(parts, position)
                         THEN \E inner \in ParseOutcomes(parts.openEnd, parts.closeStart) :
                                 /\ innerParse' = inner
                                 /\ htmlResult' = InnerOrOuter(cur, inner, position,
                                                               includeNodeBoundary)
                         ELSE /\ innerParse' = NoParse
                              /\ htmlResult' = [kind |-> "outer", node |-> cur]
    /\ htmlOp' = "getHtmlNode"
    /\ htmlPc' = "done"
    /\ UNCHANGED <<root, position, includeNodeBoundary, languageId>>
    /\ UNCHANGED notHtml

\* lines 657 and 668: the node when it is a property, else null
PropertyOrNull(n, kind) ==
    IF n # NoNode /\ kind.type = "property" THEN [kind |-> "node", node |-> n]
    ELSE [kind |-> "null", node |-> NoNode]

\* getCssPropertyFromDocument, lines 652-672
GetCssPropertyFromDocument ==
    /\ htmlPc = "ready"
    /\ \E docThrows \in BOOLEAN :
          LET node == IF docThrows THEN NoNode ELSE getNode(root, position, TRUE)
          IN  /\ htmlNode' = node
              /\ IF node = NoNode
                 THEN /\ htmlResult' = [kind |-> "null", node |-> NoNode]
                      /\ UNCHANGED <<nodeKind, nodeParts, innerParse>>
                 ELSE \E kind \in NodeKinds, parts \in PartsOf(root, node) :
                         /\ nodeKind' = kind
                         /\ nodeParts' = parts
                         /\ IF isStyleSheet(languageId)
                            THEN /\ htmlResult' = PropertyOrNull(node, kind)
                                 /\ innerParse' = NoParse
                            ELSE IF /\ kind.name = "style"
                                    /\ parts.openEnd < position
                                    /\ ~parts.hasClose
                            THEN \* htmlNode.close.start read with no close part
                                 /\ htmlResult' = [kind |-> "typeError", node |-> NoNode]
                                 /\ innerParse' = NoParse
                            ELSE IF /\ kind.name = "style"
                                    /\ parts.openEnd < position
                                    /\ parts.closeStart > position
                            THEN \E inner \in ParseOutcomes(root.start[node], root.end[node]),
                                    innerKind \in NodeKinds :
                                    /\ innerParse' = inner
                                    /\ htmlResult' =
                                          IF inner.throws
                                          THEN [kind |-> "exception", node |-> NoNode]
                                          ELSE PropertyOrNull(
                                                  getNode(inner.tree, position, TRUE),
                                                  innerKind)
                            ELSE /\ htmlResult' = [kind |-> "null", node |-> NoNode]
                                 /\ innerParse' = NoParse
    /\ htmlOp' = "getCssPropertyFromDocument"
    /\ htmlPc' = "done"
    /\ UNCHANGED <<root, position, includeNodeBoundary, languageId>>
    /\ UNCHANGED notHtml

\* getEmbeddedCssNodeIfAny, lines 675-694, handed any node of root, or none
GetEmbeddedCssNodeIfAny ==
    /\ htmlPc = "ready"
    /\ \E cur \in NodesOf(root) \cup {NoNode} :
          /\ htmlNode' = cur
          /\ IF cur = NoNode
             THEN /\ htmlResult' = [kind |-> "undefined", node |-> NoNode]
                  /\ UNCHANGED <<nodeKind, nodeParts, innerParse>>
             ELSE \E kind \in NodeKinds, parts \in PartsOf(root, cur) :
                     /\ nodeKind' = kind
                     /\ nodeParts' = parts
                     /\ IF /\ parts.hasClose
                           /\ parts.openEnd <= position /\ position <= parts.closeStart
                           /\ kind.name = "style"
                           /\ parts.openEnd < position
                           /\ parts.closeStart > position
                        THEN \E inner \in ParseOutcomes(parts.openEnd, parts.closeStart) :
                                /\ innerParse' = inner
                                /\ htmlResult' =
                                      IF inner.throws
                                      THEN [kind |-> "exception", node |-> NoNode]
                                      ELSE [kind |-> "tree", node |-> RootNode]
                        ELSE /\ innerParse' = NoParse
                             /\ htmlResult' = [kind |-> "undefined", node |-> NoNode]
    /\ htmlOp' = "getEmbeddedCssNodeIfAny"
    /\ htmlPc' = "done"
    /\ UNCHANGED <<root, position, includeNodeBoundary, languageId>>
    /\ UNCHANGED notHtml

HtmlInit ==
    /\ root \in Trees
    /\ position \in Positions
    /\ includeNodeBoundary \in BOOLEAN
    /\ languageId \in {"html", "css"}
    /\ htmlOp = "none"
    /\ htmlNode = NoNode
    /\ nodeKind = NoKind
    /\ nodeParts = NoParts
    /\ innerParse = NoParse
    /\ htmlResult = NoResult
    /\ htmlPc = "ready"
    /\ foundNode = NoNode
    /\ locPc = "idle"
    /\ SibIdle /\ CssIdle /\ LsIdle /\ WordIdle

HtmlNext ==
    \/ ParseDocument
    \/ GetHtmlNode
    \/ GetCssPropertyFromDocument
    \/ GetEmbeddedCssNodeIfAny

SpecHtml == HtmlInit /\ [][HtmlNext]_vars

(***************************************************************************)
(* Claims about the operations on a parsed document.                       *)
(***************************************************************************)
\* C8 as stated: when a parse function throws, the operation that called it
\* catches the failure and yields no tree or no node; the exception of the
\* parse function never reaches the operation's caller.
C8_NoExceptionEscapes == htmlResult.kind # "exception"

\* the located node is a script tag with a type attribute of an allow-listed
\* MIME type and a close part, and P lies strictly inside its body
TemplateBodyCase ==
    /\ nodeKind.name = "script"
    /\ \E x \in nodeKind.attributes :
          /\ x.name = "type"
          /\ x.value \in {"text/html", "text/plain", "text/x-template",
                          "text/template", "text/ng-template"}
    /\ nodeParts.hasClose
    /\ nodeParts.openEnd < position
    /\ position < nodeParts.closeStart

\* C9: in the template case getHtmlNode returns the node the locator finds in
\* the re-parsed inner range, and the outer script node when there is none or
\* the inner parse throws; any other located node is returned unchanged.
C9_InnerSupersedesOuter ==
    (htmlPc = "done" /\ htmlOp = "getHtmlNode" /\ htmlNode # NoNode) =>
        IF TemplateBodyCase
        THEN /\ innerParse.invoked
             /\ IF ~innerParse.throws
                   /\ getNode(innerParse.tree, position, includeNodeBoundary) # NoNode
                THEN htmlResult =
                        [kind |-> "inner",
                         node |-> getNode(innerParse.tree, position, includeNodeBoundary)]
                ELSE htmlResult = [kind |-> "outer", node |-> htmlNode]
        ELSE /\ ~innerParse.invoked
             /\ htmlResult = [kind |-> "outer", node |-> htmlNode]

\* C9 witness: a text/ng-template script was re-parsed and an inner node returned.
C9_Witness ==
    /\ htmlPc = "done" /\ htmlOp = "getHtmlNode"
    /\ TemplateBodyCase
    /\ Attr("type", "text/ng-template") \in nodeKind.attributes
    /\ htmlResult.kind = "inner"

(***************************************************************************)
(* getHtmlNodeLS (383-394) and getHtmlNodeLSInternal (396-421) over the    *)
(* HTML language service.                                                  *)
(*                                                                         *)
(* A text is a sequence of characters.  Tags are written with one letter:  *)
(* <s> stands for <script type="text/template">, <d> for <div>, so that    *)
(* the offsets of a small text cover every part of a tag.  A text is a     *)
(* sequence of whole pieces, with at most one unfinished start tag at its  *)
(* end.                                                                    *)
(***************************************************************************)
MaxPieces == 3      \* pieces of all open documents together
MaxCalls == 3       \* parser calls after which no new operation starts
MaxEdits == 1       \* edits of all documents together
MaxRepeatTrees == 4 \* trees parsed after which no repeated lookup starts

Uris == {"a", "b"}

Pieces ==
    {<<"<", "s", ">">>, <<"<", "/", "s", ">">>,
     <<"<", "d", ">">>, <<"<", "/", "d", ">">>, <<"x">>}

UnfinishedPiece == <<"<", "s">>

RECURSIVE TextsOfPieces(_)
TextsOfPieces(n) ==
    IF n = 0 THEN {<<>>}
    ELSE {t \o pc : t \in TextsOfPieces(n - 1), pc \in Pieces}

\* the texts of exactly n pieces
TextsOf(n) ==
    TextsOfPieces(n)
    \cup (IF n = 0 THEN {} ELSE {t \o UnfinishedPiece : t \in TextsOfPieces(n - 1)})

\* String.charAt: the empty string outside the text
TextCharAt(text, o) == IF o >= 0 /\ o < Len(text) THEN text[o + 1] ELSE ""

PieceCount(text) == Cardinality({i \in 1..Len(text) : text[i] \in {"<", "x"}})

IsFinished(text) == IF Len(text) = 0 THEN TRUE ELSE text[Len(text)] \in {">", "x"}

\* String.substring(a, b): both ends clamped to the text, swapped when a > b
Substring(text, a, b) ==
    LET ca == Clamp(a, 0, Len(text))
        cb == Clamp(b, 0, Len(text))
    IN  SubSeq(text, (IF ca < cb THEN ca ELSE cb) + 1, IF ca < cb THEN cb ELSE ca)

\* ' '.repeat(n)
Spaces(n) == [i \in 1..n |-> " "]

(***************************************************************************)
(* The parser and findNodeAt of the HTML language service, which the       *)
(* lookup reaches through parseMarkupDocument (398) and findNodeAt (400).  *)
(* A tree is a sequence of nodes, the first one its root (no tag); a node  *)
(* is referred to as <<tree, index>> since the splice of 415-416 links     *)
(* nodes of different trees.                                               *)
(***************************************************************************)
TagOf(letter) ==
    IF letter = "s" THEN "script" ELSE IF letter = "d" THEN "div" ELSE letter

\* the attribute values keep their quotes, as the language service stores them
AttributesOf(letter) ==
    IF letter = "s" THEN {Attr("type", "\"text/template\"")} ELSE {}

NewNode(start, end, parent) ==
    [tag |-> "", attributes |-> {}, start |-> start, startTagEnd |-> NoPos,
     endTagStart |-> NoPos, end |-> end, closed |-> FALSE, parent |-> parent,
     children |-> <<>>]

\* end of input: every node still open ends with the text
RECURSIVE CloseToRoot(_, _, _)
CloseToRoot(nodes, curr, len) ==
    IF nodes[curr].parent = NoRef THEN nodes
    ELSE CloseToRoot([nodes EXCEPT ![curr].end = len, ![curr].closed = FALSE],
                     nodes[curr].parent[2], len)

\* the nearest open node, from curr upwards, with the tag of the end tag
RECURSIVE MatchingOpen(_, _, _)
MatchingOpen(nodes, node, name) ==
    IF nodes[node].tag # name /\ nodes[node].parent # NoRef
    THEN MatchingOpen(nodes, nodes[node].parent[2], name)
    ELSE node

\* the open nodes below the matched one end where the end tag starts
RECURSIVE Unwind(_, _, _, _)
Unwind(nodes, curr, node, endTagStart) ==
    IF curr = node THEN nodes
    ELSE Unwind([nodes EXCEPT ![curr].end = endTagStart, ![curr].closed = FALSE],
                nodes[curr].parent[2], node, endTagStart)

\* script content is not scanned for tags: it runs to the next </s
ScriptContentEnd(text, from) ==
    LET ends == {j \in from..(Len(text) - 3) :
                    /\ TextCharAt(text, j) = "<"
                    /\ TextCharAt(text, j + 1) = "/"
                    /\ TextCharAt(text, j + 2) = "s"}
    IN  IF ends = {} THEN Len(text) ELSE MinOf(ends)

RECURSIVE Scan(_, _, _, _, _)
Scan(text, o, nodes, curr, tid) ==
    IF o >= Len(text) THEN CloseToRoot(nodes, curr, Len(text))
    ELSE IF TextCharAt(text, o) # "<" THEN Scan(text, o + 1, nodes, curr, tid)
    ELSE IF TextCharAt(text, o + 1) = "/"
    THEN \* end tag </n> at o
         LET node == MatchingOpen(nodes, curr, TagOf(TextCharAt(text, o + 2)))
         IN  IF nodes[node].parent = NoRef
             THEN Scan(text, o + 4, nodes, curr, tid)
             ELSE Scan(text, o + 4,
                       [Unwind(nodes, curr, node, o) EXCEPT
                           ![node].closed = TRUE,
                           ![node].endTagStart = o,
                           ![node].end = o + 4],
                       nodes[node].parent[2], tid)
    ELSE \* start tag <n> at o, or <n at the end of the text
         LET letter == TextCharAt(text, o + 1)
             child == Len(nodes) + 1
             opened ==
                 Append([nodes EXCEPT ![curr].children = Append(@, <<tid, child>>)],
                        [NewNode(o, Len(text), <<tid, curr>>) EXCEPT
                            !.tag = TagOf(letter),
                            !.attributes = AttributesOf(letter)])
         IN  IF TextCharAt(text, o + 2) # ">"
             THEN Scan(text, Len(text), opened, child, tid)
             ELSE LET started == [opened EXCEPT ![child].end = o + 3,
                                                ![child].startTagEnd = o + 3]
                  IN  Scan(text,
                           IF TagOf(letter) = "script"
                           THEN ScriptContentEnd(text, o + 3) ELSE o + 3,
                           started, child, tid)

\* the tree of a text, as tree number tid of the heap
parseHTMLDocument(text, tid) ==
    Scan(text, 0, <<NewNode(0, Len(text), NoRef)>>, 1, tid)

NodeAt(h, ref) == h[ref[1]][ref[2]]

\* findFirst: binary search for the first child that starts at or after offset
RECURSIVE FindFirstLoop(_, _, _, _, _)
FindFirstLoop(h, children, offset, low, high) ==
    IF low >= high THEN low
    ELSE LET mid == (low + high) \div 2
         IN  IF offset <= NodeAt(h, children[mid + 1]).start
             THEN FindFirstLoop(h, children, offset, low, mid)
             ELSE FindFirstLoop(h, children, offset, mid + 1, high)

findFirst(h, children, offset) == FindFirstLoop(h, children, offset, 0, Len(children))

\* a faulty variant, for comparison: the end of the child is not looked at
ChildStartsBefore(h, child, offset) == offset > NodeAt(h, child).start

\* offset > child.start && offset <= child.end
ChildContains(h, child, offset) ==
    /\ offset > NodeAt(h, child).start
    /\ offset <= NodeAt(h, child).end

RECURSIVE findNodeAt(_, _, _)
findNodeAt(h, ref, offset) ==
    LET idx == findFirst(h, NodeAt(h, ref).children, offset) - 1
    IN  IF idx >= 0
        THEN LET child == NodeAt(h, ref).children[idx + 1]
             IN  IF ChildContains(h, child, offset)
                 THEN findNodeAt(h, child, offset)
                 ELSE ref
        ELSE ref

(***************************************************************************)
(* parseMarkupDocument, the cached markup parser: one entry of document    *)
(* key and version with the tree parsed for them.  The lookup state st     *)
(* carries the heap, the cache entry and the two logs through the          *)
(* recursion of getHtmlNodeLSInternal.                                     *)
(***************************************************************************)
\* a faulty variant, for comparison: the entry is served whatever its version
CacheHitAnyVersion(cache, document) ==
    cache.tree # 0 /\ cache.key = document.uri

CacheHit(cache, document) ==
    cache.tree # 0 /\ cache.key = document.uri /\ cache.version = document.version

ParseCall(document, useCache, before, after, tree) ==
    [key |-> document.uri, version |-> document.version, useCache |-> useCache,
     before |-> before, after |-> after, tree |-> tree]

parseMarkupDocument(st, document, useCache) ==
    IF useCache /\ CacheHit(st.cache, document)
    THEN [st |-> [st EXCEPT !.calls = Append(@, ParseCall(document, useCache, st.cache,
                                                         st.cache, st.cache.tree))],
          tree |-> st.cache.tree]
    ELSE LET tid == Len(st.heap) + 1
             after == IF useCache
                      THEN [key |-> document.uri, version |-> document.version,
                            tree |-> tid]
                      ELSE st.cache
         IN  [st |-> [st EXCEPT
                         !.heap = Append(@, parseHTMLDocument(document.text, tid)),
                         !.cache = after,
                         !.calls = Append(@, ParseCall(document, useCache, st.cache,
                                                      after, tid))],
              tree |-> tid]

\* the substring(1, length - 1) of line 430, on the attribute values in use
StripEnds(value) ==
    IF value = "\"text/template\"" THEN "text/template" ELSE ""

\* lines 427-434
isNodeTemplateScriptLS(node) ==
    IF /\ node.tag = "script"
       /\ \E x \in node.attributes : x.name = "type" /\ x.value # ""
    THEN LET scriptType == (CHOOSE x \in node.attributes : x.name = "type").value
         IN  StripEnds(scriptType) \in allowedMimeTypesInScriptTag
    ELSE FALSE

\* a faulty variant, for comparison: one space short
BeforePaddingShort(startTagEnd) == Spaces(startTagEnd - 1)

\* line 410
BeforePadding(startTagEnd) == Spaces(startTagEnd)

\* line 411; endTagStart ?? end
ScriptBodyText(text, node) ==
    BeforePadding(node.startTagEnd)
    \o Substring(text, node.startTagEnd,
                 IF node.endTagStart # NoPos THEN node.endTagStart ELSE node.end)

\* lines 415-416: scriptBodyNode.parent = currentNode;
\*                currentNode.children.push(scriptBodyNode)
Splice(h, currentNode, scriptBodyNode) ==
    LET h1 == [h EXCEPT ![scriptBodyNode[1]][scriptBodyNode[2]].parent = currentNode]
    IN  [h1 EXCEPT ![currentNode[1]][currentNode[2]].children =
                       Append(@, scriptBodyNode)]

\* a faulty variant, for comparison: the cache is never asked for
UseCacheNever(isInTemplateNode) == FALSE

\* line 397
UseCache(isInTemplateNode) == ~isInTemplateNode

\* lines 396-421
RECURSIVE getHtmlNodeLSInternal(_, _, _, _)
getHtmlNodeLSInternal(st, document, offset, isInTemplateNode) ==
    LET useCache == UseCache(isInTemplateNode)
        parsed == parseMarkupDocument(st, document, useCache)
        currentNode == findNodeAt(parsed.st.heap, <<parsed.tree, 1>>, offset)
        node == NodeAt(parsed.st.heap, currentNode)
    IN  IF node.tag = "" THEN [st |-> parsed.st, node |-> NoRef]
        ELSE IF /\ isNodeTemplateScriptLS(node)
                /\ node.startTagEnd # NoPos /\ node.startTagEnd # 0
                /\ offset > node.startTagEnd
                /\ (node.endTagStart = NoPos \/ node.endTagStart = 0
                    \/ offset < node.endTagStart)
        THEN LET scriptBodyText == ScriptBodyText(document.text, node)
                 scriptBodyDocument == [document EXCEPT !.text = scriptBodyText]
                 built == [text |-> document.text,
                           startTagEnd |-> node.startTagEnd,
                           endTagStart |-> node.endTagStart,
                           end |-> node.end,
                           offset |-> offset,
                           scriptBodyText |-> scriptBodyText,
                           scriptBodyOffset |-> offset]
                 inner == getHtmlNodeLSInternal(
                              [parsed.st EXCEPT !.built = Append(@, built)],
                              scriptBodyDocument, offset, TRUE)
             IN  IF inner.node # NoRef
                 THEN [st |-> [inner.st EXCEPT
                                  !.heap = Splice(@, currentNode, inner.node)],
                       node |-> inner.node]
                 ELSE [st |-> inner.st, node |-> currentNode]
        ELSE [st |-> parsed.st, node |-> currentNode]

\* lines 383-394
SelectionStartOffset(text, offset, incl) ==
    IF incl /\ TextCharAt(text, offset) = "<" THEN offset + 1
    ELSE IF incl /\ TextCharAt(text, offset) = ">" THEN offset - 1
    ELSE offset

LSDocument(uri) ==
    [uri |-> uri, version |-> documents[uri].version, text |-> documents[uri].text]

LookupState == [heap |-> heap, cache |-> parseCache, calls |-> parseCalls, built |-> <<>>]

\* getHtmlNodeLS(document, position, includeNodeBoundary)
GetHtmlNodeLS ==
    /\ lsPc \in {"ready", "repeat"}
    /\ IF lsPc = "repeat" THEN Len(heap) < MaxRepeatTrees
       ELSE Len(parseCalls) < MaxCalls
    /\ \E uri \in Uris, incl \in BOOLEAN :
          \E offset \in 0..Len(documents[uri].text) :
             LET r == getHtmlNodeLSInternal(
                          LookupState, LSDocument(uri),
                          SelectionStartOffset(documents[uri].text, offset, incl),
                          FALSE)
             IN  /\ heap' = r.st.heap
                 /\ parseCache' = r.st.cache
                 /\ parseCalls' = IF lsPc = "repeat"
                                   THEN SubSeq(r.st.calls, Len(parseCalls) + 1,
                                               Len(r.st.calls))
                                   ELSE r.st.calls
                 /\ scriptBodyDocuments' = r.st.built
                 /\ lsNode' = r.node
    /\ UNCHANGED <<documents, lsPc>>
    /\ UNCHANGED notLs

\* parseMarkupDocument called by another user of the parser
ParseMarkupDocument ==
    /\ lsPc = "ready"
    /\ Len(parseCalls) < MaxCalls
    /\ \E uri \in Uris, useCache \in BOOLEAN :
          LET r == parseMarkupDocument(LookupState, LSDocument(uri), useCache)
          IN  /\ heap' = r.st.heap
              /\ parseCache' = r.st.cache
              /\ parseCalls' = r.st.calls
    /\ UNCHANGED <<documents, scriptBodyDocuments, lsNode, lsPc>>
    /\ UNCHANGED notLs

PiecesOf(docs) == PieceCount(docs["a"].text) + PieceCount(docs["b"].text)

EditsOf(docs) == (docs["a"].version - 1) + (docs["b"].version - 1)

\* the user types one more piece at the end of a document, or clears it
EditDocument ==
    /\ lsPc = "ready"
    /\ \E uri \in Uris :
          /\ EditsOf(documents) < MaxEdits
          /\ \E text \in {documents[uri].text \o pc : pc \in Pieces} \cup {<<>>} :
                /\ text # documents[uri].text
                /\ IsFinished(documents[uri].text)
                /\ PiecesOf([documents EXCEPT ![uri].text = text]) <= MaxPieces
                /\ documents' = [documents EXCEPT
                                    ![uri] = [text |-> text, version |-> @.version + 1]]
    /\ UNCHANGED <<heap, parseCache, parseCalls, scriptBodyDocuments, lsNode, lsPc>>
    /\ UNCHANGED notLs

\* document a holds any text, document b is open and still empty
DocumentSets ==
    {[uri \in Uris |-> [text |-> IF uri = "a" THEN ta ELSE <<>>, version |-> 1]] :
        ta \in UNION {TextsOf(na) : na \in 0..MaxPieces}}

LsInit ==
    /\ documents \in {d \in DocumentSets : PiecesOf(d) <= MaxPieces}
    /\ heap = <<>>
    /\ parseCache = NoCache
    /\ parseCalls = <<>>
    /\ scriptBodyDocuments = <<>>
    /\ lsNode = NoRef
    /\ lsPc = "ready"
    /\ LocIdle /\ SibIdle /\ CssIdle /\ HtmlIdle /\ WordIdle

LsNext ==
    \/ GetHtmlNodeLS
    \/ ParseMarkupDocument
    \/ EditDocument

SpecLS == LsInit /\ [][LsNext]_vars

\* repeated lookups on one unchanged document that opens with a template script
LsRepeatInit ==
    /\ documents \in
          {[uri \in Uris |->
               [text |-> IF uri = "a" THEN <<"<", "s", ">">> \o body ELSE <<>>,
                version |-> 1]] :
           body \in UNION {TextsOf(n) : n \in 0..MaxPieces}}
    /\ heap = <<>>
    /\ parseCache = NoCache
    /\ parseCalls = <<>>
    /\ scriptBodyDocuments = <<>>
    /\ lsNode = NoRef
    /\ lsPc = "repeat"
    /\ LocIdle /\ SibIdle /\ CssIdle /\ HtmlIdle /\ WordIdle

SpecLSRepeat == LsRepeatInit /\ [][GetHtmlNodeLS]_vars

(***************************************************************************)
(* Claims about the language-service lookup and the cached parser.         *)
(***************************************************************************)
\* C2 as stated: while the version of the cached document does not change, the
\* tree held in the parser cache is the tree as it was parsed: every node of it
\* keeps the children list and the parent it had right after parsing.
C2_CachedTreeUnchanged ==
    IF parseCache.tree = 0 THEN TRUE
    ELSE documents[parseCache.key].version = parseCache.version =>
            heap[parseCache.tree] =
               parseHTMLDocument(documents[parseCache.key].text, parseCache.tree)

\* the call found its document, at its version, in the cache
WasCached(call) ==
    /\ call.before.tree # 0
    /\ call.before.key = call.key
    /\ call.before.version = call.version

FreshTree(i) ==
    /\ parseCalls[i].tree # parseCalls[i].before.tree
    /\ \A j \in 1..(i - 1) : parseCalls[j].tree # parseCalls[i].tree

\* C3: over the parse calls made so far: two consecutive useCache=true calls for
\* the same key and version return the same tree instance; a useCache=true call
\* for another key or version parses fresh and makes its tree the cache entry; a
\* useCache=false call parses fresh and leaves the cache entry as it was.
C3_CacheConsistency ==
    /\ \A i \in 1..Len(parseCalls) :
          LET call == parseCalls[i]
          IN  /\ (call.useCache /\ WasCached(call)) =>
                    call.tree = call.before.tree /\ call.after = call.before
              /\ (call.useCache /\ ~WasCached(call)) =>
                    /\ FreshTree(i)
                    /\ call.after = [key |-> call.key, version |-> call.version,
                                     tree |-> call.tree]
              /\ ~call.useCache => FreshTree(i) /\ call.after = call.before
    /\ \A i \in 1..(Len(parseCalls) - 1) :
          (/\ parseCalls[i].useCache /\ parseCalls[i + 1].useCache
           /\ parseCalls[i].key = parseCalls[i + 1].key
           /\ parseCalls[i].version = parseCalls[i + 1].version)
          => parseCalls[i].tree = parseCalls[i + 1].tree

\* C3 witness: a cached call, an uncached call for the same document, and then a
\* cached call again, which is served the tree of the first.
C3_Witness ==
    /\ Len(parseCalls) = 3
    /\ parseCalls[1].useCache /\ ~parseCalls[2].useCache /\ parseCalls[3].useCache
    /\ parseCalls[1].key = parseCalls[3].key
    /\ parseCalls[1].version = parseCalls[3].version
    /\ parseCalls[3].tree = parseCalls[1].tree
    /\ parseCalls[2].tree # parseCalls[1].tree

BodyLimit(built) ==
    IF built.endTagStart # NoPos THEN built.endTagStart ELSE built.end

\* C10: every synthetic document built for a template script is startTagEnd
\* spaces followed by the body: it ends where the body ends, it equals the
\* original text at every offset of the body, and the recursive call is made
\* with the offset of the outer call.
C10_PaddingPreservesOffsets ==
    \A k \in 1..Len(scriptBodyDocuments) :
       LET built == scriptBodyDocuments[k]
       IN  /\ Len(built.scriptBodyText) = BodyLimit(built)
           /\ \A i \in 0..(built.startTagEnd - 1) :
                 TextCharAt(built.scriptBodyText, i) = " "
           /\ \A i \in built.startTagEnd..(BodyLimit(built) - 1) :
                 TextCharAt(built.scriptBodyText, i) = TextCharAt(built.text, i)
           /\ built.scriptBodyOffset = built.offset

\* C10 witness: a template script with an end tag, the node returned is one of
\* its body.
C10_Witness ==
    /\ Len(scriptBodyDocuments) = 1
    /\ scriptBodyDocuments[1].endTagStart # NoPos
    /\ scriptBodyDocuments[1].startTagEnd < scriptBodyDocuments[1].offset
    /\ lsNode # NoRef
    /\ lsNode[1] # parseCache.tree

\* tag and span of a node; of no node, nothing
StructOf(h, ref) ==
    IF ref = NoRef THEN [tag |-> "", start |-> NoPos, end |-> NoPos]
    ELSE [tag |-> NodeAt(h, ref).tag, start |-> NodeAt(h, ref).start,
          end |-> NodeAt(h, ref).end]

\* what getHtmlNodeLS returns for the position in lookup state st
ResolvedIn(st, uri, offset, incl) ==
    LET r == getHtmlNodeLSInternal(
                 st, LSDocument(uri),
                 SelectionStartOffset(documents[uri].text, offset, incl), FALSE)
    IN  StructOf(r.st.heap, r.node)

\* the process before any lookup: nothing parsed, nothing cached
FreshState == [heap |-> <<>>, cache |-> NoCache, calls |-> <<>>, built |-> <<>>]

\* the offset lies strictly inside the body of a template script of the text
InTemplateBody(text, offset) ==
    LET tree == parseHTMLDocument(text, 1)
        node == NodeAt(<<tree>>, findNodeAt(<<tree>>, <<1, 1>>, offset))
    IN  /\ isNodeTemplateScriptLS(node)
        /\ node.startTagEnd # NoPos
        /\ offset > node.startTagEnd
        /\ (node.endTagStart = NoPos \/ offset < node.endTagStart)

\* C11: after any lookups on the unchanged document, resolving a position inside
\* a template script body yields a node with the tag, start and end of the node
\* the first lookup of that position yields on the freshly parsed document; so
\* any two resolutions of the position are structurally equal.
C11_ResolutionRepeatable ==
    \A incl \in BOOLEAN :
       \A offset \in 0..Len(documents["a"].text) :
          InTemplateBody(documents["a"].text,
                         SelectionStartOffset(documents["a"].text, offset, incl))
          => ResolvedIn(LookupState, "a", offset, incl)
                = ResolvedIn(FreshState, "a", offset, incl)

\* C11 witness: after two splices into the cached script node, a lookup inside
\* the body is answered with a node spliced in earlier, without a new parse.
C11_Witness ==
    /\ lsPc = "repeat"
    /\ parseCache.tree # 0
    /\ parseCache.key = "a"
    /\ Len(NodeAt(heap, <<parseCache.tree, 2>>).children) >= 2
    /\ scriptBodyDocuments = <<>>
    /\ lsNode # NoRef
    /\ lsNode[1] # parseCache.tree

\* C12 as stated (the collector's part): getNodesInBetween never raises an
\* error: a node whose parent is undefined, or an absent node, is treated as
\* "not the same / nothing found".
C12_CollectorNeverRaises == sibPc # "raised"

\* the parents of a and b differ by position
ParentsDiffer(t, a, b) ==
    \/ t.parent[a] = RootNode /\ t.parent[b] # RootNode
       /\ (t.rootStart # t.start[t.parent[b]] \/ t.rootEnd # t.end[t.parent[b]])
    \/ t.parent[a] # RootNode /\ t.parent[b] = RootNode
       /\ (t.rootStart # t.start[t.parent[a]] \/ t.rootEnd # t.end[t.parent[a]])
    \/ t.parent[a] # RootNode /\ t.parent[b] # RootNode
       /\ (\/ t.start[t.parent[a]] # t.start[t.parent[b]]
           \/ t.end[t.parent[a]] # t.end[t.parent[b]])

\* C13: for two nodes A and B of the tree: with the same start and end the
\* result is [A]; otherwise, when the parents differ by position, the result is
\* [B] if B starts before A starts, and [A] if B starts at or after A's start
\* and before A's end.
C13_EarlyReturns ==
    (sibPc = "done" /\ node1 \in NodesOf(sibTree) /\ node2 \in NodesOf(sibTree)) =>
        LET t == sibTree
        IN  IF t.start[node1] = t.start[node2] /\ t.end[node1] = t.end[node2]
            THEN siblings = <<node1>>
            ELSE ParentsDiffer(t, node1, node2) =>
                    /\ t.start[node2] < t.start[node1] => siblings = <<node2>>
                    /\ (t.start[node1] <= t.start[node2] /\ t.start[node2] < t.end[node1])
                          => siblings = <<node1>>

\* C13 witness: B lies under a parent that starts where A's parent starts and
\* ends earlier, B starts before A, and [B] alone was returned.
C13_Witness ==
    /\ sibPc = "done"
    /\ node1 \in NodesOf(sibTree) /\ node2 \in NodesOf(sibTree)
    /\ ParentsDiffer(sibTree, node1, node2)
    /\ StartOf(sibTree, ParentOf(sibTree, node1)) = StartOf(sibTree, ParentOf(sibTree, node2))
    /\ sibTree.start[node2] < sibTree.start[node1]
    /\ siblings = <<node2>>

\* no comment can start at or after the cursor
NoSlashFromCursor ==
    \A j \in cssPosition..(DocLen(cssDocument) - 1) : CharAt(cssDocument, j) # slash

\* the first closing brace at or after offset from
FirstCloseFrom(d, from) ==
    LET closes == {j \in from..(DocLen(d) - 1) : CharAt(d, j) = closeBrace}
    IN  IF closes = {} THEN NoPos ELSE MinOf(closes)

MetCharacter ==
    Peek(cssDocument,
         BackUpPos(LineCommentBackPos(cssDocument, currentLine, streamPos), 1))

\* an iteration of the brace scan
BraceIteration == cssPc = "back1" /\ cssPc' = "back1" /\ iterations' # iterations

RECURSIVE SiblingsFrom(_, _, _)
\* n and its successive next siblings, as long as they start before limit
SiblingsFrom(t, n, limit) ==
    IF n = NoNode THEN <<>>
    ELSE IF StartOf(t, n) < limit
         THEN <<n>> \o SiblingsFrom(t, SiblingAfter(t, n), limit)
         ELSE <<>>

\* C16 as stated: when A and B are not siblings and A ends before B starts, the
\* widening loops replace A and B by ancestors that share the same parent, and
\* the result is the widened A followed by each successive next sibling that
\* starts strictly before the end of the widened B.
C16_WidenedToSiblings ==
    (/\ sibPc = "done"
     /\ node1 \in NodesOf(sibTree) /\ node2 \in NodesOf(sibTree)
     /\ ParentsDiffer(sibTree, node1, node2)
     /\ sibTree.end[node1] < sibTree.start[node2]) =>
        LET a == WidenNode1(sibTree, node1, node2)
            b == WidenNode2(sibTree, a, node2)
        IN  /\ ParentOf(sibTree, a) = ParentOf(sibTree, b)
            /\ siblings = SiblingsFrom(sibTree, a, EndOf(sibTree, b))

\* C17: of the parser calls one getHtmlNodeLS lookup makes, the first, for the
\* document itself, asks with useCache = true, and every further one, for a
\* synthetic document at any depth, asks with useCache = false; those calls
\* parse a new tree and leave the cache entry alone, so the cached tree is the
\* one parsed for the document itself.
C17_SyntheticNeverCached ==
    (lsPc = "repeat" /\ parseCalls # <<>>) =>
        /\ parseCalls[1].useCache
        /\ Len(parseCalls) = 1 + Len(scriptBodyDocuments)
        /\ \A i \in 2..Len(parseCalls) :
              /\ ~parseCalls[i].useCache
              /\ parseCalls[i].tree # parseCalls[i].before.tree
              /\ parseCalls[i].after = parseCalls[i].before
        /\ parseCache = parseCalls[1].after
        /\ parseCache.tree = parseCalls[1].tree
        /\ heap[parseCache.tree][1].end = Len(documents[parseCache.key].text)

\* C17 witness: a lookup in a template script nested in the body of another:
\* one cached call and two uncached ones.
C17_Witness ==
    /\ lsPc = "repeat"
    /\ Len(parseCalls) = 3
    /\ Len(scriptBodyDocuments) = 2
    /\ lsNode # NoRef

\* the template scripts with an end tag in the parse of the text
ClosedTemplateScripts(text) ==
    LET tree == parseHTMLDocument(text, 1)
    IN  {tree[i] : i \in {j \in 1..Len(tree) :
                             /\ isNodeTemplateScriptLS(tree[j])
                             /\ tree[j].endTagStart # NoPos}}

\* C18 as stated (the language-service lookup, at the end boundary of the
\* body): at the offset where the end tag of a template script starts no
\* re-parse is done and the outer script node is returned.
C18_BoundaryReturnsOuter ==
    lsPc = "repeat" =>
        \A script \in ClosedTemplateScripts(documents["a"].text) :
           LET r == getHtmlNodeLSInternal(LookupState, LSDocument("a"),
                                          script.endTagStart, FALSE)
           IN  /\ r.st.built = <<>>
               /\ StructOf(r.st.heap, r.node)
                     = [tag |-> script.tag, start |-> script.start, end |-> script.end]

\* C19: when the stylesheet parser is invoked, the window it is handed
\* contains the cursor: startPosition <= P <= endPosition, whichever exit the
\* scans took.
C19_WindowContainsCursor ==
    cssPc = "done" => (startPosition <= cssPosition /\ cssPosition <= endPosition)

\* C19 witness: the parser was invoked with a window cut on both sides, not
\* the whole document.
C19_Witness ==
    /\ cssPc = "done"
    /\ 0 < startPosition
    /\ endPosition < DocLen(cssDocument)

\* the offsets of lo..hi that can hold a brace, a slash or a star: all of them
\* in a short text, those outside the run in a long one
MarkOffsets(d, lo, hi) ==
    IF d.fillLen = 0 \/ d.fill \in {openBrace, closeBrace, slash, star}
    THEN lo..hi
    ELSE {j \in (0..(Len(d.pre) - 1)) \cup ((Len(d.pre) + d.fillLen)..(DocLen(d) - 1)) :
             lo <= j /\ j <= hi}

\* no comment opener or closer lies before the cursor
NoCommentBeforeCursor ==
    \A j \in MarkOffsets(cssDocument, 0, cssPosition - 2) :
       /\ CharAt(cssDocument, j) \in {slash, star}
       /\ CharAt(cssDocument, j + 1) \in {slash, star}
       => (CharAt(cssDocument, j) = star /\ CharAt(cssDocument, j + 1) = star)

\* the occurrences of the brace ch the backward scan has passed: those between
\* the stream and the cursor
PassedCount(ch) ==
    Cardinality({j \in MarkOffsets(cssDocument, streamPos, cssPosition - 1) :
                    CharAt(cssDocument, j) = ch})

\* the braces ch of d between offsets lo and hi
BracesIn(d, ch, lo, hi) ==
    Cardinality({j \in MarkOffsets(d, lo, hi) : CharAt(d, j) = ch})

\* the opening brace of the innermost block that encloses the cursor: the
\* last opening brace before it with as many opening as closing braces in
\* between; NoPos when the cursor is in no block
InnermostOpenBefore(d, cursor) ==
    LET opens == {j \in MarkOffsets(d, 0, cursor - 1) :
                     /\ CharAt(d, j) = openBrace
                     /\ BracesIn(d, openBrace, j + 1, cursor - 1)
                           = BracesIn(d, closeBrace, j + 1, cursor - 1)}
    IN  IF opens = {} THEN NoPos ELSE MaxOf(opens)

\* C20: in a dialect other than 'css', with no comment before P, at every step
\* of the backward brace scan openBracesToFind equals 1 + (closing braces
\* passed) - (opening braces passed), and when it is 0 the stream is on the
\* opening brace of the innermost block that encloses P.
C20_BraceBalance ==
    (cssPc = "back1" /\ cssDocument.languageId # "css" /\ NoCommentBeforeCursor) =>
        /\ openBracesToFind = 1 + PassedCount(closeBrace) - PassedCount(openBrace)
        /\ openBracesToFind = 0 =>
              /\ Peek(cssDocument, streamPos) = openBrace
              /\ streamPos = InnermostOpenBefore(cssDocument, cssPosition)

\* C20 witness: the scan passed a nested block and ended on the opening brace
\* of the block around it.
C20_Witness ==
    /\ cssPc = "back1"
    /\ cssDocument.languageId # "css"
    /\ NoCommentBeforeCursor
    /\ openBracesToFind = 0
    /\ PassedCount(closeBrace) > 0
    /\ Peek(cssDocument, streamPos) = openBrace

(***************************************************************************)
(* findNextWord (util.ts 477-513) and findPrevWord (515-551).  A string is *)
(* a sequence of characters; propertyValue[i] of the source is the         *)
(* character at index i, and undefined outside 0..length-1.  One action is *)
(* one iteration of the loop.                                              *)
(***************************************************************************)
space == " "

ValueChars == {space, "a"}

PropertyValues == UNION {[1..n -> ValueChars] : n \in 0..MaxValueLen}

\* propertyValue[i]
ValueCharAt(value, i) ==
    IF 0 <= i /\ i < Len(value) THEN value[i + 1] ELSE "undefined"

\* lines 479-484 and 517-522
WordInit ==
    /\ wordOp \in {"findNextWord", "findPrevWord"}
    /\ propertyValue \in PropertyValues
    /\ wordArg \in -1..Len(propertyValue)
    /\ wordPos = wordArg
    /\ foundSpace = IF wordOp = "findNextWord" THEN wordArg = -1
                    ELSE wordArg = Len(propertyValue)
    /\ foundStart = FALSE
    /\ foundEnd = FALSE
    /\ newSelectionStart = Undefined
    /\ newSelectionEnd = Undefined
    /\ wordPc = "loop"
    /\ LocIdle /\ SibIdle /\ CssIdle /\ HtmlIdle /\ LsIdle

\* lines 485-506, one iteration
FindNextWordStep ==
    /\ wordOp = "findNextWord" /\ wordPc = "loop"
    /\ wordPos < Len(propertyValue) - 1
    /\ LET p == wordPos + 1
           ch == ValueCharAt(propertyValue, p)
       IN  /\ wordPos' = p
           /\ IF ~foundSpace
              THEN /\ foundSpace' = (ch = space)
                   /\ UNCHANGED <<foundStart, foundEnd, newSelectionStart,
                                  newSelectionEnd, wordPc>>
              ELSE IF ~foundStart /\ ch = space
              THEN UNCHANGED <<foundSpace, foundStart, foundEnd, newSelectionStart,
                               newSelectionEnd, wordPc>>
              ELSE IF ~foundStart
              THEN /\ newSelectionStart' = p
                   /\ foundStart' = TRUE
                   /\ UNCHANGED <<foundSpace, foundEnd, newSelectionEnd, wordPc>>
              ELSE IF ch = space
              THEN /\ newSelectionEnd' = p
                   /\ foundEnd' = TRUE
                   /\ wordPc' = "after"
                   /\ UNCHANGED <<foundSpace, foundStart, newSelectionStart>>
              ELSE UNCHANGED <<foundSpace, foundStart, foundEnd, newSelectionStart,
                               newSelectionEnd, wordPc>>
    /\ UNCHANGED <<wordOp, propertyValue, wordArg>>
    /\ UNCHANGED notWord

\* the loop is over (line 485 or the break of line 504), then lines 508-512
FindNextWordReturn ==
    /\ wordOp = "findNextWord"
    /\ \/ wordPc = "after"
       \/ wordPc = "loop" /\ ~(wordPos < Len(propertyValue) - 1)
    /\ newSelectionEnd' = IF foundStart /\ ~foundEnd THEN Len(propertyValue)
                          ELSE newSelectionEnd
    /\ wordPc' = "done"
    /\ UNCHANGED <<wordOp, propertyValue, wordArg, wordPos, foundSpace, foundStart,
                   foundEnd, newSelectionStart>>
    /\ UNCHANGED notWord

\* lines 523-544, one iteration
FindPrevWordStep ==
    /\ wordOp = "findPrevWord" /\ wordPc = "loop"
    /\ wordPos > -1
    /\ LET p == wordPos - 1
           ch == ValueCharAt(propertyValue, p)
       IN  /\ wordPos' = p
           /\ IF ~foundSpace
              THEN /\ foundSpace' = (ch = space)
                   /\ UNCHANGED <<foundStart, foundEnd, newSelectionStart,
                                  newSelectionEnd, wordPc>>
              ELSE IF ~foundEnd /\ ch = space
              THEN UNCHANGED <<foundSpace, foundStart, foundEnd, newSelectionStart,
                               newSelectionEnd, wordPc>>
              ELSE IF ~foundEnd
              THEN /\ newSelectionEnd' = p + 1
                   /\ foundEnd' = TRUE
                   /\ UNCHANGED <<foundSpace, foundStart, newSelectionStart, wordPc>>
              ELSE IF ch = space
              THEN /\ newSelectionStart' = p + 1
                   /\ foundStart' = TRUE
                   /\ wordPc' = "after"
                   /\ UNCHANGED <<foundSpace, foundEnd, newSelectionEnd>>
              ELSE UNCHANGED <<foundSpace, foundStart, foundEnd, newSelectionStart,
                               newSelectionEnd, wordPc>>
    /\ UNCHANGED <<wordOp, propertyValue, wordArg>>
    /\ UNCHANGED notWord

\* the loop is over (line 523 or the break of line 542), then lines 546-550
FindPrevWordReturn ==
    /\ wordOp = "findPrevWord"
    /\ \/ wordPc = "after"
       \/ wordPc = "loop" /\ ~(wordPos > -1)
    /\ newSelectionStart' = IF foundEnd /\ ~foundStart THEN 0 ELSE newSelectionStart
    /\ wordPc' = "done"
    /\ UNCHANGED <<wordOp, propertyValue, wordArg, wordPos, foundSpace, foundStart,
                   foundEnd, newSelectionEnd>>
    /\ UNCHANGED notWord

WordNext ==
    \/ FindNextWordStep
    \/ FindNextWordReturn
    \/ FindPrevWordStep
    \/ FindPrevWordReturn

SpecWords == WordInit /\ [][WordNext]_vars

\* the returned pair [start, end] delimits a word of the value: it is not
\* empty, lies within the value and holds no space
IsWord(value, start, end) ==
    /\ 0 <= start /\ start < end /\ end <= Len(value)
    /\ \A i \in start..(end - 1) : ValueCharAt(value, i) # space

\* C21 as stated: findNextWord and findPrevWord return either
\* [undefined, undefined] or a pair [start, end] with
\* 0 <= start < end <= s.length whose characters hold no space; for
\* findNextWord start > pos and for findPrevWord end <= pos.
C21_ReturnsWordOrNothing ==
    wordPc = "done" =>
        \/ newSelectionStart = Undefined /\ newSelectionEnd = Undefined
        \/ /\ newSelectionStart # Undefined /\ newSelectionEnd # Undefined
           /\ IsWord(propertyValue, newSelectionStart, newSelectionEnd)
           /\ wordOp = "findNextWord" => newSelectionStart > wordArg
           /\ wordOp = "findPrevWord" => newSelectionEnd <= wordArg

\* C21, the part about findNextWord alone
C21_NextWordOnly ==
    (wordPc = "done" /\ wordOp = "findNextWord") => C21_ReturnsWordOrNothing

====
